---- MODULE Spec2Model ----
(***************************************************************************)
(* Model of the wadfile crate (src/src/lib.rs): read_header, the decoder   *)
(* of a WAD file's header and lump directory, and validate_lump_name, the  *)
(* validator of the 8-byte lump-name field.                                *)
(*                                                                         *)
(* A file is a sequence of bytes (numbers 0..255).  read_header is a step  *)
(* machine over it: pc is the statement it is at, pos the file position.   *)
(* Spec runs read_header over a family of archive images; SpecName runs    *)
(* validate_lump_name on 8-byte fields, as the unit tests call it.         *)
(***************************************************************************)
EXTENDS Integers, Sequences, FiniteSets, TLC

VARIABLES
    file,                   \* the bytes of the file named by wad_filename
    pc,                     \* the statement read_header is at
    pos,                    \* the position of the File handle f
    file_size,              \* metadata.len()
    wad_type,               \* "IWAD" | "PWAD" | "none" (not yet decided)
    directory_entry_count,
    directory_start,
    lump_ptr,
    lump_size,
    lump_name,              \* the [u8; 8] buffer
    lump_names,             \* Vec<(String, Lump)>
    result,                 \* the io::Error returned, or Ok, or None while running
    hdr,                    \* the Header returned when result.kind = "Ok"
    image                   \* what the file was built from (never read by the program)

vars == <<file, pc, pos, file_size, wad_type, directory_entry_count,
          directory_start, lump_ptr, lump_size, lump_name, lump_names,
          result, hdr, image>>

-----------------------------------------------------------------------------
(* Program constants *)

\* i32::MAX, the largest value of the i32 fields of Lump and Header.
MaxI32 == 2147483647

\* The length of the lump-name field, [u8; 8].
NameLen == 8

\* The length of the magic tag, [0u8; 4].
MagicLen == 4

\* U+FFFD, what String::from_utf8_lossy substitutes for invalid bytes.
ReplacementChar == 65533

-----------------------------------------------------------------------------
(* Bounds of the model *)

\* The most directory entries an archive image of Init holds.
MaxEntries == 2

\* The most bytes of lump data between the 12-byte header and the directory.
MaxPad == 1

-----------------------------------------------------------------------------
(* io::Error values and results *)

\* No character is named by the error.
NoChar == 0 - 1

Running == [kind |-> "None", msg |-> "", ch |-> NoChar]

OkResult == [kind |-> "Ok", msg |-> "", ch |-> NoChar]

\* mk_err: an io::Error of kind Other carrying msg.
mk_err(msg) == [kind |-> "Other", msg |-> msg, ch |-> NoChar]

\* mk_err with a formatted message that also shows the character ch.
mk_err_ch(msg, c) == [kind |-> "Other", msg |-> msg, ch |-> c]

\* What read_exact returns when the stream ends before the buffer is full.
UnexpectedEof == [kind |-> "UnexpectedEof", msg |-> "failed to fill whole buffer", ch |-> NoChar]

NoHeader == [wad_type |-> "none", directory_entry_count |-> 0,
             directory_start |-> 0, lumps |-> <<>>]

-----------------------------------------------------------------------------
(* Bytes and little-endian integers *)

Tag_IWAD == <<73, 87, 65, 68>>
Tag_PWAD == <<80, 87, 65, 68>>

\* read_i32::<LittleEndian>: four bytes as a two's-complement 32-bit integer.
read_i32(b) ==
    b[1] + 256 * b[2] + 65536 * b[3]
         + 16777216 * (IF b[4] >= 128 THEN b[4] - 256 ELSE b[4])

\* Whether read_exact can fill a buffer of n bytes at position p of f.
CanRead(f, p, n) == p + n <= Len(f)

\* The n bytes read_exact reads at position p (0-based) of f.
Bytes(f, p, n) == SubSeq(f, p + 1, p + n)

\* File::seek(SeekFrom::Start(n)): the position of a regular file becomes n,
\* within or beyond end-of-file alike (lseek), and n is returned.
seek(f, n) == n

-----------------------------------------------------------------------------
(* validate_lump_name *)

\* Mutant of IsAccepted: lower-case letters are accepted too.
IsAccepted_anycase(b) ==
    \/ b >= 65 /\ b <= 90
    \/ b >= 97 /\ b <= 122
    \/ b >= 48 /\ b <= 57
    \/ b \in {91, 93, 45, 95, 92}

IsAccepted(b) ==
    \/ b >= 65 /\ b <= 90       \* b'A'...b'Z'
    \/ b >= 48 /\ b <= 57       \* b'0'...b'9'
    \/ b = 91                   \* b'['
    \/ b = 93                   \* b']'
    \/ b = 45                   \* b'-'
    \/ b = 95                   \* b'_'
    \/ b = 92                   \* b'\\'

\* Mutant of NulArm: the bytes after the NUL are not looked at.
NulArm_noscan(name, c) ==
    IF c = 0 THEN mk_err("empty lump name") ELSE OkResult

\* The arm of the match taken at index c (0-based) when name[c] is 0.
NulArm(name, c) ==
    IF c = 0
    THEN mk_err("empty lump name")
    ELSE IF \E i \in c..(NameLen - 1) : name[i + 1] # 0
         THEN mk_err("non-0 after 0 character in lump name")
         ELSE OkResult

RECURSIVE ScanName(_, _)
\* The loop `for c in 0..8` from index c on.
ScanName(name, c) ==
    IF c >= NameLen
    THEN OkResult
    ELSE LET b == name[c + 1] IN
         IF IsAccepted(b) THEN ScanName(name, c + 1)
         ELSE IF b = 0 THEN NulArm(name, c)
         ELSE mk_err_ch("invalid character in lump name", b)

validate_lump_name(name) == ScanName(name, 0)

-----------------------------------------------------------------------------
(* The name of a lump: trimming and lossy decoding *)

RECURSIVE TrimLen(_, _)
\* `while d > 0 && lump_name[d - 1] == 0 { d -= 1 }` from d on.
TrimLen(name, d) ==
    IF d > 0 /\ name[d] = 0 THEN TrimLen(name, d - 1) ELSE d

\* String::from_utf8_lossy, on the bytes this model decodes: an ASCII byte is
\* its own character, any other byte becomes the replacement character.
from_utf8_lossy(bs) ==
    [i \in 1..Len(bs) |-> IF bs[i] < 128 THEN bs[i] ELSE ReplacementChar]

\* Mutant of LumpName: the field decoded whole, trailing NULs kept.
LumpName_untrimmed(name) == from_utf8_lossy(name)

LumpName(name) == from_utf8_lossy(SubSeq(name, 1, TrimLen(name, NameLen)))

-----------------------------------------------------------------------------
(* 64-bit arithmetic of the bounds checks.  A u64 is two limbs <<hi, lo>>   *)
(* in base 2^16, so that no sum of the model leaves the checker's integers. *)

Limb == 65536

\* `x as u64` for a non-negative i32 or a file length.
as_u64(x) == <<x \div Limb, x % Limb>>

\* u64 addition; the sum of two non-negative i32 values never wraps in u64.
add_u64(a, b) ==
    LET lo == a[2] + b[2] IN <<a[1] + b[1] + lo \div Limb, lo % Limb>>

gt_u64(a, b) == a[1] > b[1] \/ (a[1] = b[1] /\ a[2] > b[2])

\* `lump_ptr as u64 > file_size`
PtrTooLarge(ptr, fsize) == gt_u64(as_u64(ptr), as_u64(fsize))

\* Mutant of SizeTooLarge: the sum taken in i32, wrapping at 2^31.
SizeTooLarge_i32(ptr, size, fsize) ==
    LET sum == IF ptr > MaxI32 - size
               THEN (ptr - MaxI32 - 1) + (size - MaxI32 - 1)
               ELSE ptr + size
    IN sum > fsize

\* `lump_ptr as u64 + lump_size as u64 > file_size`
SizeTooLarge(ptr, size, fsize) ==
    gt_u64(add_u64(as_u64(ptr), as_u64(size)), as_u64(fsize))

-----------------------------------------------------------------------------
(* read_header, statement by statement *)

\* Mutant of WadTypeOf: only the last three bytes of the tag are compared.
WadTypeOf_suffix(magic) ==
    IF magic = Tag_IWAD THEN "IWAD"
    ELSE IF SubSeq(magic, 2, 4) = SubSeq(Tag_PWAD, 2, 4) THEN "PWAD"
    ELSE "none"

WadTypeOf(magic) ==
    IF magic = Tag_IWAD THEN "IWAD"
    ELSE IF magic = Tag_PWAD THEN "PWAD"
    ELSE "none"

\* Mutant of CountStartError: directory_start is checked first.
CountStartError_swapped(cnt, start) ==
    IF start < 0 THEN mk_err("directory start is negative")
    ELSE IF cnt < 0 THEN mk_err("directory entry count is negative")
    ELSE OkResult

\* The two checks that follow the reads of both header fields.
CountStartError(cnt, start) ==
    IF cnt < 0 THEN mk_err("directory entry count is negative")
    ELSE IF start < 0 THEN mk_err("directory start is negative")
    ELSE OkResult

\* The checks on lump_ptr.
PtrError(ptr, fsize) ==
    IF ptr < 0 THEN mk_err("lump start pointer is negative")
    ELSE IF PtrTooLarge(ptr, fsize) THEN mk_err("lump start pointer is too large")
    ELSE OkResult

\* The checks on lump_size.
SizeError(ptr, size, fsize) ==
    IF size < 0 THEN mk_err("lump size is negative")
    ELSE IF SizeTooLarge(ptr, size, fsize) THEN mk_err("lump size is too large")
    ELSE OkResult

\* Mutant of LoopHead: the inclusive range 0..=directory_entry_count.
LoopHead_inclusive(pushed, cnt) == IF pushed <= cnt THEN "lump_ptr" ELSE "finish"

\* `for _ in 0..directory_entry_count`: the loop runs while fewer than
\* directory_entry_count entries were pushed.
LoopHead(pushed, cnt) == IF pushed < cnt THEN "lump_ptr" ELSE "finish"

\* Return Err(e).
Fail(e) == /\ result' = e
           /\ pc' = "done"

\* File::open, f.metadata(), metadata.len().
Open ==
    /\ pc = "open"
    /\ file_size' = Len(file)
    /\ pc' = "magic"
    /\ UNCHANGED <<file, pos, wad_type, directory_entry_count, directory_start,
                   lump_ptr, lump_size, lump_name, lump_names, result, hdr, image>>

\* f.read_exact(&mut magic) and the choice of wad_type.
ReadMagic ==
    /\ pc = "magic"
    /\ IF ~CanRead(file, pos, MagicLen)
       THEN Fail(UnexpectedEof) /\ UNCHANGED <<pos, wad_type>>
       ELSE LET magic == Bytes(file, pos, MagicLen) IN
            /\ pos' = pos + MagicLen
            /\ IF WadTypeOf(magic) = "none"
               THEN Fail(mk_err("invalid WAD tag")) /\ UNCHANGED wad_type
               ELSE /\ wad_type' = WadTypeOf(magic)
                    /\ pc' = "count"
                    /\ UNCHANGED result
    /\ UNCHANGED <<file, file_size, directory_entry_count, directory_start,
                   lump_ptr, lump_size, lump_name, lump_names, hdr, image>>

\* Mutant of ReadCount: a short read is reported as a format error.
ReadCount_wrapped ==
    /\ pc = "count"
    /\ IF ~CanRead(file, pos, 4)
       THEN Fail(mk_err("cannot read directory entry count"))
            /\ UNCHANGED <<pos, directory_entry_count>>
       ELSE /\ directory_entry_count' = read_i32(Bytes(file, pos, 4))
            /\ pos' = pos + 4
            /\ pc' = "start"
            /\ UNCHANGED result
    /\ UNCHANGED <<file, file_size, wad_type, directory_start,
                   lump_ptr, lump_size, lump_name, lump_names, hdr, image>>

\* let directory_entry_count = try!(f.read_i32::<LittleEndian>());
ReadCount ==
    /\ pc = "count"
    /\ IF ~CanRead(file, pos, 4)
       THEN Fail(UnexpectedEof) /\ UNCHANGED <<pos, directory_entry_count>>
       ELSE /\ directory_entry_count' = read_i32(Bytes(file, pos, 4))
            /\ pos' = pos + 4
            /\ pc' = "start"
            /\ UNCHANGED result
    /\ UNCHANGED <<file, file_size, wad_type, directory_start,
                   lump_ptr, lump_size, lump_name, lump_names, hdr, image>>

\* let directory_start = try!(f.read_i32::<LittleEndian>());
ReadStart ==
    /\ pc = "start"
    /\ IF ~CanRead(file, pos, 4)
       THEN Fail(UnexpectedEof) /\ UNCHANGED <<pos, directory_start>>
       ELSE /\ directory_start' = read_i32(Bytes(file, pos, 4))
            /\ pos' = pos + 4
            /\ pc' = "check"
            /\ UNCHANGED result
    /\ UNCHANGED <<file, file_size, wad_type, directory_entry_count,
                   lump_ptr, lump_size, lump_name, lump_names, hdr, image>>

\* if directory_entry_count < 0 {..}  if directory_start < 0 {..}
CheckCountStart ==
    /\ pc = "check"
    /\ LET e == CountStartError(directory_entry_count, directory_start) IN
       IF e.kind = "Other"
       THEN Fail(e)
       ELSE pc' = "seek" /\ UNCHANGED result
    /\ UNCHANGED <<file, pos, file_size, wad_type, directory_entry_count,
                   directory_start, lump_ptr, lump_size, lump_name, lump_names, hdr, image>>

\* f.seek(SeekFrom::Start(directory_start as u64)) and the check of dir_pos.
SeekDirectory ==
    /\ pc = "seek"
    /\ LET dir_pos == seek(file, directory_start) IN
       /\ pos' = dir_pos
       /\ IF dir_pos # directory_start
          THEN Fail(mk_err("cannot seek to directory start"))
          ELSE /\ pc' = LoopHead(Len(lump_names), directory_entry_count)
               /\ UNCHANGED result
    /\ UNCHANGED <<file, file_size, wad_type, directory_entry_count,
                   directory_start, lump_ptr, lump_size, lump_name, lump_names, hdr, image>>

\* let lump_ptr = try!(f.read_i32::<LittleEndian>()); and its checks.
ReadLumpPtr ==
    /\ pc = "lump_ptr"
    /\ IF ~CanRead(file, pos, 4)
       THEN Fail(UnexpectedEof) /\ UNCHANGED <<pos, lump_ptr>>
       ELSE LET ptr == read_i32(Bytes(file, pos, 4))
                e == PtrError(ptr, file_size)
            IN /\ lump_ptr' = ptr
               /\ pos' = pos + 4
               /\ IF e.kind = "Other"
                  THEN Fail(e)
                  ELSE pc' = "lump_size" /\ UNCHANGED result
    /\ UNCHANGED <<file, file_size, wad_type, directory_entry_count,
                   directory_start, lump_size, lump_name, lump_names, hdr, image>>

\* let lump_size = try!(f.read_i32::<LittleEndian>()); and its checks.
ReadLumpSize ==
    /\ pc = "lump_size"
    /\ IF ~CanRead(file, pos, 4)
       THEN Fail(UnexpectedEof) /\ UNCHANGED <<pos, lump_size>>
       ELSE LET size == read_i32(Bytes(file, pos, 4))
                e == SizeError(lump_ptr, size, file_size)
            IN /\ lump_size' = size
               /\ pos' = pos + 4
               /\ IF e.kind = "Other"
                  THEN Fail(e)
                  ELSE pc' = "lump_name" /\ UNCHANGED result
    /\ UNCHANGED <<file, file_size, wad_type, directory_entry_count,
                   directory_start, lump_ptr, lump_name, lump_names, hdr, image>>

\* f.read_exact(&mut lump_name), validate_lump_name, the trimmed name and
\* lump_names.push(entry).
ReadLumpName ==
    /\ pc = "lump_name"
    /\ IF ~CanRead(file, pos, NameLen)
       THEN Fail(UnexpectedEof) /\ UNCHANGED <<pos, lump_name, lump_names>>
       ELSE LET name == Bytes(file, pos, NameLen)
                e == validate_lump_name(name)
            IN /\ lump_name' = name
               /\ pos' = pos + NameLen
               /\ IF e.kind = "Other"
                  THEN Fail(e) /\ UNCHANGED lump_names
                  ELSE LET entry == [name |-> LumpName(name),
                                     file_offset |-> lump_ptr,
                                     size |-> lump_size]
                       IN /\ lump_names' = Append(lump_names, entry)
                          /\ pc' = LoopHead(Len(lump_names) + 1, directory_entry_count)
                          /\ UNCHANGED result
    /\ UNCHANGED <<file, file_size, wad_type, directory_entry_count,
                   directory_start, lump_ptr, lump_size, hdr, image>>

\* let hdr = Header{..}; Ok(hdr)
Finish ==
    /\ pc = "finish"
    /\ hdr' = [wad_type |-> wad_type,
               directory_entry_count |-> directory_entry_count,
               directory_start |-> directory_start,
               lumps |-> lump_names]
    /\ result' = OkResult
    /\ pc' = "done"
    /\ UNCHANGED <<file, pos, file_size, wad_type, directory_entry_count,
                   directory_start, lump_ptr, lump_size, lump_name, lump_names, image>>

\* A direct call of validate_lump_name(&name), as the unit tests make it.
CallValidate ==
    /\ pc = "validate"
    /\ result' = validate_lump_name(lump_name)
    /\ pc' = "validated"
    /\ UNCHANGED <<file, pos, file_size, wad_type, directory_entry_count,
                   directory_start, lump_ptr, lump_size, lump_name, lump_names, hdr, image>>

-----------------------------------------------------------------------------
(* Archive images: the files read_header is run on *)

\* A 32-bit integer as the four bytes read_i32::<LittleEndian> reads it from.
LE32(v) ==
    <<v % 256, (v \div 256) % 256, (v \div 65536) % 256, (v \div 16777216) % 256>>

Tag_XWAD == <<88, 87, 65, 68>>

Name_E1M1 == <<69, 49, 77, 49, 0, 0, 0, 0>>
Name_ARCHVILE == <<65, 82, 67, 72, 86, 73, 76, 69>>
Name_Bad == <<68, 69, 0, 0, 83, 0, 0, 0>>

TagVals == {Tag_IWAD, Tag_PWAD, Tag_XWAD}

CountVals == (0 - 1)..MaxEntries

\* Directory entries: well-formed ones, and ones with one or several fields
\* out of bounds or malformed.
EntryVals ==
    [ptr : {12}, size : {0 - 1, 4, MaxI32}, name : {Name_E1M1, Name_Bad}]
        \cup {[ptr |-> 12, size |-> 4, name |-> Name_ARCHVILE]}
        \cup [ptr : {0 - 1, MaxI32}, size : {4}, name : {Name_E1M1}]
        \cup {[ptr |-> 0 - 1, size |-> 0 - 1, name |-> Name_Bad],
              [ptr |-> MaxI32, size |-> MaxI32, name |-> Name_Bad]}

EntrySeqs == UNION {[1..n -> EntryVals] : n \in 0..MaxEntries}

\* Where the header says the directory is, and how many bytes of lump data
\* lie between the header and the directory.
Layouts ==
    {[start |-> s, pad |-> 0] : s \in {0 - 1, 0, 1000}}
        \cup {[start |-> 12 + p, pad |-> p] : p \in 0..MaxPad}

\* Bytes dropped from the end of the image.
CutVals == {0, 4, 8, 10}

RECURSIVE Directory(_)
Directory(es) ==
    IF es = <<>> THEN <<>>
    ELSE LE32(Head(es).ptr) \o LE32(Head(es).size) \o Head(es).name
             \o Directory(Tail(es))

Image(tag, cnt, start, pad, es) ==
    tag \o LE32(cnt) \o LE32(start) \o [i \in 1..pad |-> 0] \o Directory(es)

Truncate(img, cut) ==
    IF cut >= Len(img) THEN <<>> ELSE SubSeq(img, 1, Len(img) - cut)

\* No file is involved in a direct call of validate_lump_name.
NoImage == [tag |-> <<>>, cnt |-> 0, start |-> 0, pad |-> 0, es |-> <<>>, cut |-> 0]

InitRest ==
    /\ pos = 0
    /\ file_size = 0
    /\ wad_type = "none"
    /\ directory_entry_count = 0
    /\ directory_start = 0
    /\ lump_ptr = 0
    /\ lump_size = 0
    /\ lump_names = <<>>
    /\ result = Running
    /\ hdr = NoHeader

Init ==
    /\ \E tag \in TagVals, cnt \in CountVals, lay \in Layouts,
          es \in EntrySeqs, cut \in CutVals :
          /\ image = [tag |-> tag, cnt |-> cnt, start |-> lay.start,
                      pad |-> lay.pad, es |-> es, cut |-> cut]
          /\ file = Truncate(Image(tag, cnt, lay.start, lay.pad, es), cut)
    /\ pc = "open"
    /\ lump_name = [i \in 1..NameLen |-> 0]
    /\ InitRest

Next ==
    \/ Open
    \/ ReadMagic
    \/ ReadCount
    \/ ReadStart
    \/ CheckCountStart
    \/ SeekDirectory
    \/ ReadLumpPtr
    \/ ReadLumpSize
    \/ ReadLumpName
    \/ Finish

Spec == Init /\ [][Next]_vars

-----------------------------------------------------------------------------
(* The 8-byte fields validate_lump_name is run on *)

\* Every field over NUL, an accepted and a rejected character.
PlainNames == [1..NameLen -> {0, 65, 97}]

\* Bytes at and next to the edges of the accepted ranges, and non-ASCII ones.
EdgeBytes == {44, 45, 46, 47, 48, 57, 58, 64, 65, 90, 91, 92, 93, 94, 95, 96,
              127, 128, 255}

\* Every field over NUL and an accepted character with one byte replaced by
\* an edge byte.
EdgeNames ==
    {[base EXCEPT ![i] = b] :
        base \in [1..NameLen -> {0, 65}], i \in 1..NameLen, b \in EdgeBytes}

InitName ==
    /\ lump_name \in PlainNames \cup EdgeNames
    /\ pc = "validate"
    /\ file = <<>>
    /\ image = NoImage
    /\ InitRest

NextName == CallValidate

SpecName == InitName /\ [][NextName]_vars

-----------------------------------------------------------------------------
(* Vocabulary of the properties, stated on the file and on what it was     *)
(* built from rather than on the decoder's variables.                      *)

Done == pc = "done"

Returned == Done /\ result.kind = "Ok"

\* The accepted characters: A-Z, 0-9, '[', ']', '-', '_', '\'.
AcceptedSet == (65..90) \cup (48..57) \cup {91, 93, 45, 95, 92}

\* k accepted characters, 1 <= k <= 8, followed by 8-k NUL bytes.
WellFormedName(name) ==
    \E k \in 1..NameLen :
        /\ \A i \in 1..k : name[i] \in AcceptedSet
        /\ \A i \in (k + 1)..NameLen : name[i] = 0

\* The field without its trailing NUL bytes.
Stripped(name) ==
    LET nonNul == {i \in 1..Len(name) : name[i] # 0}
        last == IF nonNul = {} THEN 0
                ELSE CHOOSE i \in nonNul : \A j \in nonNul : j <= i
    IN SubSeq(name, 1, last)

\* p + s > n for 32-bit p and s, without leaving 32 bits.
Exceeds(p, s, n) ==
    IF p >= 0 /\ s >= 0 THEN s > n - p
    ELSE IF p < 0 /\ s < 0 THEN FALSE
    ELSE p + s > n

\* The integer stored at byte offset off of f.
FieldAt(f, off) == read_i32(SubSeq(f, off + 1, off + 4))

HasHeader(f) == Len(f) >= 12

TagOf(f) == SubSeq(f, 1, 4)

ValidTag(f) == Len(f) >= 4 /\ TagOf(f) \in {Tag_IWAD, Tag_PWAD}

CountOf(f) == FieldAt(f, 4)

StartOf(f) == FieldAt(f, 8)

\* The byte offset of directory entry i (0-based).
EntryOff(f, i) == StartOf(f) + 16 * i

-----------------------------------------------------------------------------
(* C1 *)

LumpsInBounds ==
    Returned =>
        \A i \in 1..Len(hdr.lumps) :
            LET l == hdr.lumps[i] IN
            /\ 0 <= l.file_offset
            /\ 0 <= l.size
            /\ l.file_offset <= Len(file)
            /\ l.size <= Len(file) - l.file_offset

\* Entry i of the directory has its file_offset and size in the file, and
\* their sum exceeds the length of the file.
Oversized(f, i) ==
    /\ EntryOff(f, i) + 8 <= Len(f)
    /\ Exceeds(FieldAt(f, EntryOff(f, i)), FieldAt(f, EntryOff(f, i) + 4), Len(f))

OversizedRejected ==
    (/\ Done
     /\ HasHeader(file)
     /\ StartOf(file) >= 0
     /\ \E i \in 0..(CountOf(file) - 1) : Oversized(file, i))
        => result.kind = "Other" /\ hdr = NoHeader

\* C1: every lump of a returned Header has 0 <= file_offset, 0 <= size and
\* file_offset + size <= file_size, the sum taken without wrap-around; a
\* directory entry among the first directory_entry_count whose file_offset +
\* size exceeds the length of the file makes the decode fail with an error of
\* kind Other, and no Header is returned.
C1_LumpsWithinFile == LumpsInBounds /\ OversizedRejected

\* A first entry was accepted and the second, whose file_offset + size is
\* 12 + (2^31 - 1), was rejected as too large.
C1_Witness ==
    /\ Done
    /\ result = mk_err("lump size is too large")
    /\ lump_ptr = 12
    /\ lump_size = MaxI32
    /\ Len(lump_names) = 1

-----------------------------------------------------------------------------
(* C2 *)

TagName(tag) == IF tag = Tag_IWAD THEN "IWAD" ELSE "PWAD"

WellFormedEntry(e, flen) ==
    /\ e.ptr >= 0
    /\ e.size >= 0
    /\ ~Exceeds(e.ptr, e.size, flen)
    /\ WellFormedName(e.name)

\* The image is whole, its tag is IWAD or PWAD, its count is the number of
\* its entries, its directory lies where directory_start says, within the
\* file, and every entry is in bounds and validly named.
WellFormedImage ==
    /\ image.cut = 0
    /\ image.tag \in {Tag_IWAD, Tag_PWAD}
    /\ image.cnt = Len(image.es)
    /\ image.start >= 0
    /\ image.start <= Len(file)
    /\ Len(image.es) > 0 => image.start = 12 + image.pad
    /\ \A i \in 1..Len(image.es) : WellFormedEntry(image.es[i], Len(file))

\* C2: read_header of a well-formed image succeeds; the Header has the
\* wad_type of the tag, the encoded directory_entry_count and directory_start,
\* and one lump per directory entry, in directory order, duplicates kept:
\* lump i is the name field i without its trailing NULs, with file_offset i
\* and size i.
C2_RoundTrip ==
    (Done /\ WellFormedImage) =>
        /\ result.kind = "Ok"
        /\ hdr.wad_type = TagName(image.tag)
        /\ hdr.directory_entry_count = Len(image.es)
        /\ hdr.directory_start = image.start
        /\ Len(hdr.lumps) = Len(image.es)
        /\ \A i \in 1..Len(image.es) :
               hdr.lumps[i] = [name |-> Stripped(image.es[i].name),
                               file_offset |-> image.es[i].ptr,
                               size |-> image.es[i].size]

\* A well-formed image of two entries with the same name was decoded.
C2_Witness ==
    /\ Returned
    /\ WellFormedImage
    /\ Len(image.es) = 2
    /\ image.es[1].name = image.es[2].name
    /\ Len(hdr.lumps) = 2

-----------------------------------------------------------------------------
(* C3 *)

Validated == pc = "validated"

AllNul(name) == \A i \in 1..NameLen : name[i] = 0

NonNulAfterNul(name) ==
    \E i, j \in 1..NameLen : i < j /\ name[i] = 0 /\ name[j] # 0

\* C3: validate_lump_name accepts a field exactly when it is k accepted
\* characters, 1 <= k <= 8, followed by 8-k NUL bytes; the all-NUL field is
\* rejected as an empty lump name, and a field with a non-NUL byte after a
\* NUL byte is rejected.
C3_NameAcceptance ==
    Validated =>
        /\ result.kind = "Ok" <=> WellFormedName(lump_name)
        /\ result.kind \in {"Ok", "Other"}
        /\ AllNul(lump_name) => result = mk_err("empty lump name")
        /\ NonNulAfterNul(lump_name) => result.kind = "Other"

\* A field of accepted characters, a NUL and an accepted character again
\* (the shape of DEMO3\0\0S) was rejected.
C3_Witness ==
    /\ Validated
    /\ lump_name = <<65, 65, 65, 65, 65, 0, 0, 65>>
    /\ result = mk_err("non-0 after 0 character in lump name")

-----------------------------------------------------------------------------
(* C7 *)

\* The indices of the bytes that are neither accepted nor NUL.
BadAt(name) == {i \in 1..NameLen : name[i] \notin AcceptedSet \cup {0}}

FirstBad(name) == CHOOSE i \in BadAt(name) : \A j \in BadAt(name) : i <= j

NulBefore(name, i) == \E j \in 1..(i - 1) : name[j] = 0

\* C7 as stated: every field with a byte outside the accepted set and not
\* NUL is rejected with the invalid-character error naming the first such
\* byte, wherever that byte is, also after a NUL byte.
C7_Original ==
    (Validated /\ BadAt(lump_name) # {}) =>
        result = mk_err_ch("invalid character in lump name",
                           lump_name[FirstBad(lump_name)])

\* C7 amended: every field with a byte outside the accepted set and not NUL
\* is rejected; the error is the invalid-character error naming the first
\* such byte when no NUL byte precedes it; when a NUL byte precedes it, the
\* error is the empty-name error if the field starts with NUL and the
\* non-0-after-0 error otherwise.
C7_InvalidCharacter ==
    (Validated /\ BadAt(lump_name) # {}) =>
        LET i == FirstBad(lump_name) IN
        IF ~NulBefore(lump_name, i)
        THEN result = mk_err_ch("invalid character in lump name", lump_name[i])
        ELSE IF lump_name[1] = 0
             THEN result = mk_err("empty lump name")
             ELSE result = mk_err("non-0 after 0 character in lump name")

\* A field whose last byte is the first byte outside the accepted set, with
\* no NUL before it, was rejected naming that byte.
C7_Witness ==
    /\ Validated
    /\ lump_name = <<65, 65, 65, 65, 65, 65, 65, 96>>
    /\ result = mk_err_ch("invalid character in lump name", 96)

-----------------------------------------------------------------------------
(* C4 *)

\* C4 as stated: in every returned Header directory_start is non-negative
\* and at most the length of the file, whatever directory_entry_count is.
C4_DirectoryStartWithinFile ==
    Returned => 0 <= hdr.directory_start /\ hdr.directory_start <= Len(file)

-----------------------------------------------------------------------------
(* C5 *)

\* The statements that read a field, and the length of the field.
ReadingPcs == {"magic", "count", "start", "lump_ptr", "lump_size", "lump_name"}

FieldLen(at) ==
    IF at = "magic" THEN MagicLen
    ELSE IF at = "lump_name" THEN NameLen
    ELSE 4

StreamEndsInField == pc \in ReadingPcs /\ pos + FieldLen(pc) > Len(file)

\* C5: when the stream ends before the field being read can be read in full
\* (the magic, directory_entry_count, directory_start, or an entry's
\* file_offset, size or name), read_header returns an io::Error whose kind
\* is not Other, and no Header; a stream holding only a valid 4-byte magic
\* tag yields such an error.
C5_ShortReadIsIoError ==
    /\ [][StreamEndsInField =>
            /\ pc' = "done"
            /\ result'.kind = "UnexpectedEof"
            /\ hdr' = NoHeader]_vars
    /\ [](Done /\ Len(file) = 4 /\ ValidTag(file)
            => result.kind = "UnexpectedEof" /\ hdr = NoHeader)

\* A stream holding only a valid magic tag ended in an UnexpectedEof error.
C5_Witness ==
    /\ Done
    /\ Len(file) = 4
    /\ ValidTag(file)
    /\ result = UnexpectedEof

-----------------------------------------------------------------------------
(* C6 *)

\* C6: a file of at least 4 bytes whose first 4 bytes are neither IWAD nor
\* PWAD fails with the error "invalid WAD tag", whatever follows the tag;
\* nothing after the tag is read.
C6_InvalidTag ==
    (Done /\ Len(file) >= 4 /\ ~ValidTag(file)) =>
        /\ result = mk_err("invalid WAD tag")
        /\ pos = 4
        /\ hdr = NoHeader

\* A file with a wrong tag, a negative count and a negative directory_start
\* was rejected for its tag.
C6_Witness ==
    /\ Done
    /\ HasHeader(file)
    /\ ~ValidTag(file)
    /\ CountOf(file) < 0
    /\ StartOf(file) < 0
    /\ result = mk_err("invalid WAD tag")

-----------------------------------------------------------------------------
(* C8 *)

\* C8 as stated: a non-negative directory_start beyond the end of the file
\* fails with the error "cannot seek to directory start" before any
\* directory entry is read, for every directory_entry_count >= 0.
C8_SeekBeyondEndFails ==
    (/\ Done
     /\ HasHeader(file)
     /\ ValidTag(file)
     /\ CountOf(file) >= 0
     /\ StartOf(file) >= 0
     /\ StartOf(file) > Len(file))
        => result = mk_err("cannot seek to directory start")

-----------------------------------------------------------------------------
(* C9 *)

\* C9: a file with a valid tag, directory_entry_count 0 and a directory_start
\* that is non-negative and at most the length of the file decodes to a
\* Header with no lumps, count 0 and that directory_start, whatever bytes
\* are stored at or after directory_start.
C9_EmptyDirectory ==
    (/\ Done
     /\ HasHeader(file)
     /\ ValidTag(file)
     /\ CountOf(file) = 0
     /\ StartOf(file) >= 0
     /\ StartOf(file) <= Len(file))
        => /\ result.kind = "Ok"
           /\ hdr = [wad_type |-> TagName(TagOf(file)),
                     directory_entry_count |-> 0,
                     directory_start |-> StartOf(file),
                     lumps |-> <<>>]

\* A file with count 0 whose directory_start points at a malformed entry
\* was decoded to a Header without lumps.
C9_Witness ==
    /\ Returned
    /\ CountOf(file) = 0
    /\ StartOf(file) = 12
    /\ Len(image.es) > 0
    /\ ~WellFormedEntry(image.es[1], Len(file))
    /\ image.cut = 0
    /\ hdr.lumps = <<>>

-----------------------------------------------------------------------------
(* C10 *)

\* What the steps of the algorithm, taken in a given order, report for a
\* file: an outcome [res, at], res the result returned and at the position
\* of the stream when it is returned.

Outcome(res, at) == [res |-> res, at |-> at]

\* The verdict on a name field, by its first byte that is not accepted.
NameVerdict(name) ==
    LET stops == {i \in 1..NameLen : name[i] \notin AcceptedSet} IN
    IF stops = {} THEN OkResult
    ELSE LET i == CHOOSE k \in stops : \A j \in stops : k <= j IN
         IF name[i] # 0
         THEN mk_err_ch("invalid character in lump name", name[i])
         ELSE IF i = 1 THEN mk_err("empty lump name")
         ELSE IF \E j \in (i + 1)..NameLen : name[j] # 0
              THEN mk_err("non-0 after 0 character in lump name")
              ELSE OkResult

\* The steps of the entry stored at offset off: file_offset (read, check),
\* size (read, check), name (read, validate).
EntrySteps(f, off) ==
    IF off + 4 > Len(f) THEN Outcome(UnexpectedEof, off)
    ELSE IF FieldAt(f, off) < 0
    THEN Outcome(mk_err("lump start pointer is negative"), off + 4)
    ELSE IF FieldAt(f, off) > Len(f)
    THEN Outcome(mk_err("lump start pointer is too large"), off + 4)
    ELSE IF off + 8 > Len(f) THEN Outcome(UnexpectedEof, off + 4)
    ELSE IF FieldAt(f, off + 4) < 0
    THEN Outcome(mk_err("lump size is negative"), off + 8)
    ELSE IF Exceeds(FieldAt(f, off), FieldAt(f, off + 4), Len(f))
    THEN Outcome(mk_err("lump size is too large"), off + 8)
    ELSE IF off + 16 > Len(f) THEN Outcome(UnexpectedEof, off + 8)
    ELSE Outcome(NameVerdict(SubSeq(f, off + 9, off + 16)), off + 16)

\* The seek, then the entries in directory order: the outcome of the first
\* entry that fails, or Ok after the last entry.
DirectorySteps(f, cnt, start) ==
    IF seek(f, start) # start
    THEN Outcome(mk_err("cannot seek to directory start"), seek(f, start))
    ELSE LET failing == {i \in 0..(cnt - 1) :
                            EntrySteps(f, start + 16 * i).res # OkResult}
         IN IF failing = {} THEN Outcome(OkResult, start + 16 * cnt)
            ELSE EntrySteps(f, start + 16 *
                     (CHOOSE i \in failing : \A j \in failing : i <= j))

MagicSteps(f) ==
    IF Len(f) < 4 THEN Outcome(UnexpectedEof, 0)
    ELSE IF ~ValidTag(f) THEN Outcome(mk_err("invalid WAD tag"), 4)
    ELSE Outcome(OkResult, 4)

\* The order C10 states: directory_entry_count is read and checked, then
\* directory_start is read and checked.
StepsAsStated(f) ==
    IF MagicSteps(f).res # OkResult THEN MagicSteps(f)
    ELSE IF Len(f) < 8 THEN Outcome(UnexpectedEof, 4)
    ELSE IF CountOf(f) < 0
    THEN Outcome(mk_err("directory entry count is negative"), 8)
    ELSE IF Len(f) < 12 THEN Outcome(UnexpectedEof, 8)
    ELSE IF StartOf(f) < 0
    THEN Outcome(mk_err("directory start is negative"), 12)
    ELSE DirectorySteps(f, CountOf(f), StartOf(f))

\* The order of the amended claim: directory_entry_count and directory_start
\* are both read, then the count is checked, then the start.
StepsReadThenCheck(f) ==
    IF MagicSteps(f).res # OkResult THEN MagicSteps(f)
    ELSE IF Len(f) < 8 THEN Outcome(UnexpectedEof, 4)
    ELSE IF Len(f) < 12 THEN Outcome(UnexpectedEof, 8)
    ELSE IF CountOf(f) < 0
    THEN Outcome(mk_err("directory entry count is negative"), 12)
    ELSE IF StartOf(f) < 0
    THEN Outcome(mk_err("directory start is negative"), 12)
    ELSE DirectorySteps(f, CountOf(f), StartOf(f))

====
